---------------------------- MODULE Spec2Model ----------------------------
(***************************************************************************)
(* Model of the IterativeDeepening engine of homemade.py: the time         *)
(* allocator (computation_time), the iterative-deepening controller        *)
(* (search), the root search (decide), the recursive alpha-beta search     *)
(* (alphabeta), the move orderer (sort_initial_moves) and the tapered      *)
(* evaluation (heuristic) with its piece values and piece-square tables.   *)
(*                                                                         *)
(* The rules engine (python-chess) is an external collaborator.  A         *)
(* position is what the engine reads of it: the side to move, the terminal *)
(* status, the pieces on the 64 squares and the legal moves.  A board      *)
(* object is a root position plus the stack of moves pushed on it.         *)
(***************************************************************************)
EXTENDS Integers, Sequences, FiniteSets, TLC

\* An optional value: the Python None is the empty tuple, a value x that is
\* present is the one-element tuple << x >>.
None == << >>

Some(x) == << x >>

Get(opt) == opt[1]

\* chess.WHITE and chess.BLACK are the booleans True and False.
WHITE == TRUE
BLACK == FALSE

\* chess.PAWN .. chess.KING, the piece types of python-chess.
PAWN == 1
KNIGHT == 2
BISHOP == 3
ROOK == 4
QUEEN == 5
KING == 6

\* chess.SQUARES: A1 = 0, B1 = 1, ..., H8 = 63.
SQUARES == 0 .. 63

\* t[i] of a Python list (0-based) held as a TLA+ sequence (1-based).
At(t, i) == t[i + 1]

\* t[::-1], the Python list reversed.
Reversed(t) == [k \in 1 .. Len(t) |-> t[Len(t) + 1 - k]]

\* Mutant of MID_GAME_CHESS_PIECE_VALUES: a queen is worth a thousand times
\* as much.
MID_GAME_CHESS_PIECE_VALUES_huge == << 82, 337, 365, 477, 1025000, 99999 >>

\* The material values, indexed by piece type.
MID_GAME_CHESS_PIECE_VALUES == << 82, 337, 365, 477, 1025, 99999 >>

END_GAME_CHESS_PIECE_VALUES == << 94, 281, 297, 512, 936, 99999 >>

MID_GAME_PAWN_PIECE_SQUARE_TABLES_BLACK ==
    <<    0,    0,    0,    0,    0,    0,    0,    0,
         98,  134,   61,   95,   68,  126,   34,  -11,
         -6,    7,   26,   31,   65,   56,   25,  -20,
        -14,   13,    6,   21,   23,   12,   17,  -23,
        -27,   -2,   -5,   12,   17,    6,   10,  -25,
        -26,   -4,   -4,  -10,    3,    3,   33,  -12,
        -35,   -1,  -20,  -23,  -15,   24,   38,  -22,
          0,    0,    0,    0,    0,    0,    0,    0 >>

MID_GAME_PAWN_PIECE_SQUARE_TABLES_WHITE == Reversed(MID_GAME_PAWN_PIECE_SQUARE_TABLES_BLACK)

END_GAME_PAWN_PIECE_SQUARE_TABLES_BLACK ==
    <<    0,    0,    0,    0,    0,    0,    0,    0,
        178,  173,  158,  134,  147,  132,  165,  187,
         94,  100,   85,   67,   56,   53,   82,   84,
         32,   24,   13,    5,   -2,    4,   17,   17,
         13,    9,   -3,   -7,   -7,   -8,    3,   -1,
          4,    7,   -6,    1,    0,   -5,   -1,   -8,
         13,    8,    8,   10,   13,    0,    2,   -7,
          0,    0,    0,    0,    0,    0,    0,    0 >>

END_GAME_PAWN_PIECE_SQUARE_TABLES_WHITE == Reversed(END_GAME_PAWN_PIECE_SQUARE_TABLES_BLACK)

MID_GAME_KNIGHT_PIECE_SQUARE_TABLES_BLACK ==
    << -167,  -89,  -34,  -49,   61,  -97,  -15, -107,
        -73,  -41,   72,   36,   23,   62,    7,  -17,
        -47,   60,   37,   65,   84,  129,   73,   44,
         -9,   17,   19,   53,   37,   69,   18,   22,
        -13,    4,   16,   13,   28,   19,   21,   -8,
        -23,   -9,   12,   10,   19,   17,   25,  -16,
        -29,  -53,  -12,   -3,   -1,   18,  -14,  -19,
       -105,  -21,  -58,  -33,  -17,  -28,  -19,  -23 >>

MID_GAME_KNIGHT_PIECE_SQUARE_TABLES_WHITE == Reversed(MID_GAME_KNIGHT_PIECE_SQUARE_TABLES_BLACK)

END_GAME_KNIGHT_PIECE_SQUARE_TABLES_BLACK ==
    <<  -58,  -38,  -13,  -28,  -31,  -27,  -63,  -99,
        -25,   -8,  -25,   -2,   -9,  -25,  -24,  -52,
        -24,  -20,   10,    9,   -1,   -9,  -19,  -41,
        -17,    3,   22,   22,   22,   11,    8,  -18,
        -18,   -6,   16,   25,   16,   17,    4,  -18,
        -23,   -3,   -1,   15,   10,   -3,  -20,  -22,
        -42,  -20,  -10,   -5,   -2,  -20,  -23,  -44,
        -29,  -51,  -23,  -15,  -22,  -18,  -50,  -64 >>

END_GAME_KNIGHT_PIECE_SQUARE_TABLES_WHITE == Reversed(END_GAME_KNIGHT_PIECE_SQUARE_TABLES_BLACK)

MID_GAME_BISHOP_PIECE_SQUARE_TABLES_BLACK ==
    <<  -29,    4,  -82,  -37,  -25,  -42,    7,   -8,
        -26,   16,  -18,  -13,   30,   59,   18,  -47,
        -16,   37,   43,   40,   35,   50,   37,   -2,
         -4,    5,   19,   50,   37,   37,    7,   -2,
         -6,   13,   13,   26,   34,   12,   10,    4,
          0,   15,   15,   15,   14,   27,   18,   10,
          4,   15,   16,    0,    7,   21,   33,    1,
        -33,   -3,  -14,  -21,  -13,  -12,  -39,  -21 >>

MID_GAME_BISHOP_PIECE_SQUARE_TABLES_WHITE == Reversed(MID_GAME_BISHOP_PIECE_SQUARE_TABLES_BLACK)

END_GAME_BISHOP_PIECE_SQUARE_TABLES_BLACK ==
    <<  -14,  -21,  -11,   -8,   -7,   -9,  -17,  -24,
         -8,   -4,    7,  -12,   -3,  -13,   -4,  -14,
          2,   -8,    0,   -1,   -2,    6,    0,    4,
         -3,    9,   12,    9,   14,   10,    3,    2,
         -6,    3,   13,   19,    7,   10,   -3,   -9,
        -12,   -3,    8,   10,   13,    3,   -7,  -15,
        -14,  -18,   -7,   -1,    4,   -9,  -15,  -27,
        -23,   -9,  -23,   -5,   -9,  -16,   -5,  -17 >>

END_GAME_BISHOP_PIECE_SQUARE_TABLES_WHITE == Reversed(END_GAME_BISHOP_PIECE_SQUARE_TABLES_BLACK)

MID_GAME_ROOK_PIECE_SQUARE_TABLES_BLACK ==
    <<   32,   42,   32,   51,   63,    9,   31,   43,
         27,   32,   58,   62,   80,   67,   26,   44,
         -5,   19,   26,   36,   17,   45,   61,   16,
        -24,  -11,    7,   26,   24,   35,   -8,  -20,
        -36,  -26,  -12,   -1,    9,   -7,    6,  -23,
        -45,  -25,  -16,  -17,    3,    0,   -5,  -33,
        -44,  -16,  -20,   -9,   -1,   11,   -6,  -71,
        -19,  -13,    1,   17,   16,    7,  -37,  -26 >>

MID_GAME_ROOK_PIECE_SQUARE_TABLES_WHITE == Reversed(MID_GAME_ROOK_PIECE_SQUARE_TABLES_BLACK)

END_GAME_ROOK_PIECE_SQUARE_TABLES_BLACK ==
    <<   13,   10,   18,   15,   12,   12,    8,    5,
         11,   13,   13,   11,   -3,    3,    8,    3,
          7,    7,    7,    5,    4,   -3,   -5,   -3,
          4,    3,   13,    1,    2,    1,   -1,    2,
          3,    5,    8,    4,   -5,   -6,   -8,  -11,
         -4,    0,   -5,   -1,   -7,  -12,   -8,  -16,
         -6,   -6,    0,    2,   -9,   -9,  -11,   -3,
         -9,    2,    3,   -1,   -5,  -13,    4,  -20 >>

END_GAME_ROOK_PIECE_SQUARE_TABLES_WHITE == Reversed(END_GAME_ROOK_PIECE_SQUARE_TABLES_BLACK)

MID_GAME_QUEEN_PIECE_SQUARE_TABLES_BLACK ==
    <<  -28,    0,   29,   12,   59,   44,   43,   45,
        -24,  -39,   -5,    1,  -16,   57,   28,   54,
        -13,  -17,    7,    8,   29,   56,   47,   57,
        -27,  -27,  -16,  -16,   -1,   17,   -2,    1,
         -9,  -26,   -9,  -10,   -2,   -4,    3,   -3,
        -14,    2,  -11,   -2,   -5,    2,   14,    5,
        -35,   -8,   11,    2,    8,   15,   -3,    1,
         -1,  -18,   -9,   10,  -15,  -25,  -31,  -50 >>

MID_GAME_QUEEN_PIECE_SQUARE_TABLES_WHITE == Reversed(MID_GAME_QUEEN_PIECE_SQUARE_TABLES_BLACK)

END_GAME_QUEEN_PIECE_SQUARE_TABLES_BLACK ==
    <<   -9,   22,   22,   27,   27,   19,   10,   20,
        -17,   20,   32,   41,   58,   25,   30,    0,
        -20,    6,    9,   49,   47,   35,   19,    9,
          3,   22,   24,   45,   57,   40,   57,   36,
        -18,   28,   19,   47,   31,   34,   39,   23,
        -16,  -27,   15,    6,    9,   17,   10,    5,
        -22,  -23,  -30,  -16,  -16,  -23,  -36,  -32,
        -33,  -28,  -22,  -43,   -5,  -32,  -20,  -41 >>

END_GAME_QUEEN_PIECE_SQUARE_TABLES_WHITE == Reversed(END_GAME_QUEEN_PIECE_SQUARE_TABLES_BLACK)

MID_GAME_KING_PIECE_SQUARE_TABLES_BLACK ==
    <<  -65,   23,   16,  -15,  -56,  -34,    2,   13,
         29,   -1,  -20,   -7,   -8,   -4,  -38,  -29,
         -9,   24,    2,  -16,  -20,    6,   22,  -22,
        -17,  -20,  -12,  -27,  -30,  -25,  -14,  -36,
        -49,   -1,  -27,  -39,  -46,  -44,  -33,  -51,
        -14,  -14,  -22,  -46,  -44,  -30,  -15,  -27,
          1,    7,   -8,  -64,  -43,  -16,    9,    8,
        -15,   36,   12,  -54,    8,  -28,   24,   14 >>

MID_GAME_KING_PIECE_SQUARE_TABLES_WHITE == Reversed(MID_GAME_KING_PIECE_SQUARE_TABLES_BLACK)

END_GAME_KING_PIECE_SQUARE_TABLES_BLACK ==
    <<  -74,  -35,  -18,  -18,  -11,   15,    4,  -17,
        -12,   17,   14,   17,   17,   38,   23,   11,
         10,   17,   23,   15,   20,   45,   44,   13,
         -8,   22,   24,   27,   26,   33,   26,    3,
        -18,   -4,   21,   24,   27,   23,    9,  -11,
        -19,   -3,   11,   21,   23,   16,    7,   -9,
        -27,  -11,    4,   13,   14,    4,   -5,  -17,
        -53,  -34,  -21,  -11,  -28,  -14,  -24,  -43 >>

END_GAME_KING_PIECE_SQUARE_TABLES_WHITE == Reversed(END_GAME_KING_PIECE_SQUARE_TABLES_BLACK)

(***************************************************************************)
(* The rules engine's view of one position.  A position is a record        *)
(*   status : "normal", "checkmate", "stalemate", "insufficient" or        *)
(*            "repetition" (game over by a repetition or move-count rule), *)
(*   turn   : the side to move,                                            *)
(*   pieces : a function from the occupied squares to the piece on them,   *)
(*            a record [piece_type, color].                                *)
(***************************************************************************)
Piece(piece_type, color) == [piece_type |-> piece_type, color |-> color]

\* board.piece_at(square): the piece on the square, or None.
piece_at(position, square) ==
    IF square \in DOMAIN position.pieces THEN Some(position.pieces[square]) ELSE None

is_checkmate(position) == position.status = "checkmate"

is_stalemate(position) == position.status = "stalemate"

is_insufficient_material(position) == position.status = "insufficient"

\* board.is_game_over(): checkmate, stalemate, insufficient material, or one of
\* the automatic draws by repetition or move count.
is_game_over(position) == position.status # "normal"

\* board.outcome().winner of a checkmate: the side that is not to move.
outcome_winner(position) == ~ position.turn

\* The if/elif chains of heuristic that pick the positional table of a piece.
MID_GAME_TABLE(color, piece_type) ==
    IF color = WHITE
    THEN CASE piece_type = PAWN   -> MID_GAME_PAWN_PIECE_SQUARE_TABLES_WHITE
           [] piece_type = KNIGHT -> MID_GAME_KNIGHT_PIECE_SQUARE_TABLES_WHITE
           [] piece_type = BISHOP -> MID_GAME_BISHOP_PIECE_SQUARE_TABLES_WHITE
           [] piece_type = ROOK   -> MID_GAME_ROOK_PIECE_SQUARE_TABLES_WHITE
           [] piece_type = QUEEN  -> MID_GAME_QUEEN_PIECE_SQUARE_TABLES_WHITE
           [] piece_type = KING   -> MID_GAME_KING_PIECE_SQUARE_TABLES_WHITE
    ELSE CASE piece_type = PAWN   -> MID_GAME_PAWN_PIECE_SQUARE_TABLES_BLACK
           [] piece_type = KNIGHT -> MID_GAME_KNIGHT_PIECE_SQUARE_TABLES_BLACK
           [] piece_type = BISHOP -> MID_GAME_BISHOP_PIECE_SQUARE_TABLES_BLACK
           [] piece_type = ROOK   -> MID_GAME_ROOK_PIECE_SQUARE_TABLES_BLACK
           [] piece_type = QUEEN  -> MID_GAME_QUEEN_PIECE_SQUARE_TABLES_BLACK
           [] piece_type = KING   -> MID_GAME_KING_PIECE_SQUARE_TABLES_BLACK

END_GAME_TABLE(color, piece_type) ==
    IF color = WHITE
    THEN CASE piece_type = PAWN   -> END_GAME_PAWN_PIECE_SQUARE_TABLES_WHITE
           [] piece_type = KNIGHT -> END_GAME_KNIGHT_PIECE_SQUARE_TABLES_WHITE
           [] piece_type = BISHOP -> END_GAME_BISHOP_PIECE_SQUARE_TABLES_WHITE
           [] piece_type = ROOK   -> END_GAME_ROOK_PIECE_SQUARE_TABLES_WHITE
           [] piece_type = QUEEN  -> END_GAME_QUEEN_PIECE_SQUARE_TABLES_WHITE
           [] piece_type = KING   -> END_GAME_KING_PIECE_SQUARE_TABLES_WHITE
    ELSE CASE piece_type = PAWN   -> END_GAME_PAWN_PIECE_SQUARE_TABLES_BLACK
           [] piece_type = KNIGHT -> END_GAME_KNIGHT_PIECE_SQUARE_TABLES_BLACK
           [] piece_type = BISHOP -> END_GAME_BISHOP_PIECE_SQUARE_TABLES_BLACK
           [] piece_type = ROOK   -> END_GAME_ROOK_PIECE_SQUARE_TABLES_BLACK
           [] piece_type = QUEEN  -> END_GAME_QUEEN_PIECE_SQUARE_TABLES_BLACK
           [] piece_type = KING   -> END_GAME_KING_PIECE_SQUARE_TABLES_BLACK

\* The list heuristic indexes with piece.piece_type to advance game_phase.
game_phase_inc == << 0, 0, 1, 1, 1, 1, 2, 2, 4, 4, 0, 0 >>

\* The locals of heuristic before the loop over the squares.
HeuristicLocals ==
    [game_phase |-> 0,
     middle_game_white_score |-> 0, end_game_white_score |-> 0,
     middle_game_black_score |-> 0, end_game_black_score |-> 0]

\* The sum of two sets of accumulators.
HeuristicAdd(x, y) ==
    [game_phase |-> x.game_phase + y.game_phase,
     middle_game_white_score |-> x.middle_game_white_score + y.middle_game_white_score,
     end_game_white_score |-> x.end_game_white_score + y.end_game_white_score,
     middle_game_black_score |-> x.middle_game_black_score + y.middle_game_black_score,
     end_game_black_score |-> x.end_game_black_score + y.end_game_black_score]

\* What one pass of the body of "for square in chess.SQUARES" adds to the
\* accumulators.
HeuristicSquare(position, square) ==
    LET at == piece_at(position, square) IN
    IF at = None THEN HeuristicLocals
    ELSE LET piece == Get(at)
             mid == MID_GAME_CHESS_PIECE_VALUES[piece.piece_type]
                    + At(MID_GAME_TABLE(piece.color, piece.piece_type), square)
             end == END_GAME_CHESS_PIECE_VALUES[piece.piece_type]
                    + At(END_GAME_TABLE(piece.color, piece.piece_type), square)
             phased == [HeuristicLocals EXCEPT !.game_phase =
                                     At(game_phase_inc, piece.piece_type)]
         IN IF piece.color = WHITE
            THEN [phased EXCEPT !.middle_game_white_score = mid,
                                !.end_game_white_score = end]
            ELSE [phased EXCEPT !.middle_game_black_score = mid,
                                !.end_game_black_score = end]

\* The loop over the squares lo .. hi.  Every pass only adds to the
\* accumulators, so the passes are summed by halves.
RECURSIVE HeuristicLoop(_, _, _)
HeuristicLoop(position, lo, hi) ==
    IF lo = hi THEN HeuristicSquare(position, lo)
    ELSE LET half == (lo + hi) \div 2
         IN CHOOSE sum \in {HeuristicAdd(x, y) :
                                x \in {HeuristicLoop(position, lo, half)},
                                y \in {HeuristicLoop(position, half + 1, hi)}} : TRUE

\* The locals of heuristic after the loop over all 64 squares.
HeuristicTotals(position) == HeuristicLoop(position, 0, 63)

\* middle_game_phase of heuristic: game_phase clamped to 24.
middle_game_phase(acc) == IF acc.game_phase > 24 THEN 24 ELSE acc.game_phase

\* end_game_phase of heuristic.
end_game_phase(acc) == 24 - middle_game_phase(acc)

\* mid_score and end_score of heuristic.
mid_score(acc) == acc.middle_game_white_score - acc.middle_game_black_score

end_score(acc) == acc.end_game_white_score - acc.end_game_black_score

\* Mutant of heuristic: the terminal status is not looked at, every position
\* is scored by its material and tables.
heuristic_unchecked(position) ==
    CHOOSE tapered \in
        {mid_score(acc) * middle_game_phase(acc)
         + end_score(acc) * end_game_phase(acc) :
             acc \in {HeuristicTotals(position)}} : TRUE

\* heuristic(board): the static evaluation, white-relative.  The board and the
\* accumulators are bound once, as the locals of the function are.
heuristic(position) ==
    CHOOSE value \in
        {IF is_checkmate(b)
         THEN IF outcome_winner(b) = WHITE THEN 9999999 ELSE -9999999
         ELSE IF is_stalemate(b) \/ is_insufficient_material(b) THEN 0
         ELSE CHOOSE tapered \in
                  {mid_score(acc) * middle_game_phase(acc)
                   + end_score(acc) * end_game_phase(acc) :
                       acc \in {HeuristicTotals(b)}} : TRUE
           : b \in {position}} : TRUE

(***************************************************************************)
(* Positions for the checks.  Sq(file, rank) is chess.square; Setup turns  *)
(* a set of << square, piece type, colour >> into the pieces of a          *)
(* position.                                                               *)
(***************************************************************************)
Sq(file, rank) == rank * 8 + file

Setup(placements) ==
    [square \in {pl[1] : pl \in placements} |->
        LET pl == CHOOSE q \in placements : q[1] = square
        IN Piece(pl[2], pl[3])]

\* The two kings on their home squares.
Kings == {<< Sq(4, 0), KING, WHITE >>, << Sq(4, 7), KING, BLACK >>}

\* The back-rank pieces and the pawns of the starting position.
StartPieces ==
    LET back == << ROOK, KNIGHT, BISHOP, QUEEN, KING, BISHOP, KNIGHT, ROOK >>
    IN UNION {{<< Sq(f, 0), back[f + 1], WHITE >>, << Sq(f, 1), PAWN, WHITE >>,
               << Sq(f, 6), PAWN, BLACK >>, << Sq(f, 7), back[f + 1], BLACK >>}
              : f \in 0 .. 7}

\* Pieces that may stand on the board beside the two kings, in a fixed order.
ExtraPieces ==
    << << Sq(3, 0), QUEEN, WHITE >>, << Sq(0, 7), ROOK, BLACK >>,
       << Sq(4, 3), PAWN, WHITE >>, << Sq(4, 4), PAWN, BLACK >>,
       << Sq(2, 2), KNIGHT, WHITE >>, << Sq(5, 5), BISHOP, BLACK >>,
       << Sq(3, 7), QUEEN, BLACK >>, << Sq(0, 0), ROOK, WHITE >> >>

\* How many of ExtraPieces the evaluated positions choose from.
MaxExtraPieces == 6

Statuses == {"normal", "checkmate", "stalemate", "insufficient", "repetition"}

\* What the rules engine reports as insufficient material among the layouts
\* below: the two kings alone or with a single knight or bishop.
InsufficientLayout(layout) ==
    /\ Cardinality(layout) <= 3
    /\ \A pl \in layout : pl[2] \in {KING, KNIGHT, BISHOP}

\* The positions heuristic is evaluated on: the starting position and the two
\* kings with any subset of the first MaxExtraPieces extra pieces, under every
\* status the rules engine can report for them and either side to move.
EvalPositions ==
    LET n == IF MaxExtraPieces < Len(ExtraPieces) THEN MaxExtraPieces
             ELSE Len(ExtraPieces)
        extras == {{ExtraPieces[k] : k \in ks} : ks \in SUBSET (1 .. n)}
        layouts == {StartPieces} \cup {Kings \cup e : e \in extras}
    IN {[status |-> sl[1], turn |-> t, pieces |-> Setup(sl[2])] :
            sl \in {x \in Statuses \X layouts :
                       (x[1] = "insufficient") <=> InsufficientLayout(x[2])},
            t \in BOOLEAN}

(***************************************************************************)
(* The game tree the search runs on.  A board object is the root position  *)
(* of a game and the stack of moves pushed on it.  The position reached by *)
(* a move stack is an entry of CATALOG chosen by the game's two seeds, so  *)
(* that different games give different trees: different leaf values, ties, *)
(* checkmates, stalemates and draws at different plies.                    *)
(***************************************************************************)
\* The largest number of legal moves of a position.
Branch == 2

\* The seeds mul of the games range over 0 .. MaxMul.
MaxMul == 4

CATALOG ==
    << [status |-> "normal", mobility |-> 3,
        pieces |-> Setup(Kings \cup {ExtraPieces[1], ExtraPieces[2]})],
       [status |-> "normal", mobility |-> 2,
        pieces |-> Setup(Kings \cup {ExtraPieces[7], ExtraPieces[8]})],
       [status |-> "checkmate", mobility |-> 0,
        pieces |-> Setup(Kings \cup {ExtraPieces[1], ExtraPieces[8]})],
       [status |-> "normal", mobility |-> 3,
        pieces |-> Setup(Kings \cup {ExtraPieces[3], ExtraPieces[4]})],
       [status |-> "stalemate", mobility |-> 0,
        pieces |-> Setup(Kings \cup {ExtraPieces[7]})],
       [status |-> "normal", mobility |-> 1,
        pieces |-> Setup(Kings \cup {ExtraPieces[5], ExtraPieces[6]})],
       [status |-> "insufficient", mobility |-> 2,
        pieces |-> Setup(Kings)],
       [status |-> "normal", mobility |-> 2,
        pieces |-> Setup(Kings \cup {ExtraPieces[3], ExtraPieces[5],
                                     ExtraPieces[6]})],
       [status |-> "repetition", mobility |-> 2,
        pieces |-> Setup(Kings \cup {ExtraPieces[2], ExtraPieces[8],
                                     ExtraPieces[4]})],
       [status |-> "normal", mobility |-> 3,
        pieces |-> Setup(StartPieces)],
       [status |-> "normal", mobility |-> 2,
        pieces |-> Setup(Kings \cup {ExtraPieces[1], ExtraPieces[7],
                                     ExtraPieces[3]})] >>

\* The games: the side to move at the root and the two seeds.  The root has a
\* legal move (search is not called on a position without one).
Games ==
    {g \in [turn : BOOLEAN, mul : 0 .. MaxMul, off : 0 .. Len(CATALOG) - 1] :
        CATALOG[g.off + 1].mobility > 0}

\* board.push(move) and board.pop() on the move stack of a board object.
push(stack, move) == Append(stack, move)

pop(stack) == SubSeq(stack, 1, Len(stack) - 1)

\* The j-th legal move of a position `ply` plies below the root.  Moves of
\* different plies are different moves.
MoveAt(ply, j) == ply * Branch + j

\* The number of the path of a move stack among the paths of the tree.
RECURSIVE PathKey(_)
PathKey(stack) ==
    IF stack = << >> THEN 0
    ELSE LET ply == Len(stack) - 1
         IN PathKey(pop(stack)) * (Branch + 1) + (stack[Len(stack)] - ply * Branch)

\* The position a board object holds: the root position of the game with the
\* moves of the stack played.
Position(game, stack) ==
    LET entry == CATALOG[((game.mul * PathKey(stack) + game.off) % Len(CATALOG)) + 1]
        width == IF entry.mobility < Branch THEN entry.mobility ELSE Branch
    IN [status |-> entry.status,
        turn |-> IF Len(stack) % 2 = 0 THEN game.turn ELSE ~ game.turn,
        pieces |-> entry.pieces,
        legal_moves |-> [j \in 1 .. width |-> MoveAt(Len(stack), j)]]

\* list(board.legal_moves), in the rules engine's order.
legal_moves(position) == position.legal_moves

\* board.turn
turn(position) == position.turn

(***************************************************************************)
(* Time.  Clocks, increments and budgets are Python floats in seconds.     *)
(* They are held here as whole numbers of ticks of 1/16 second; the clocks *)
(* and increments are multiples of 4 ticks (a quarter of a second), so the *)
(* division by 4 of computation_time is exact, as it is on such floats.    *)
(***************************************************************************)
Seconds(n) == n * 16

\* The clocks range over 0 .. MaxClock quarters of a second.
MaxClock == 6

\* The increments range over 0 .. MaxInc quarters of a second.
MaxInc == 2

\* A chess.engine.Limit without clock information (a fixed time per move).
MoveTimeLimit ==
    [white_clock |-> None, black_clock |-> None, white_inc |-> None, black_inc |-> None]

\* The Limit objects the protocol adapter passes: no clock information at
\* all, or both clocks with each side's increment given or not.
TimeLimits ==
    LET clocks == {Some(4 * k) : k \in 0 .. MaxClock}
        incs == {None} \cup {Some(4 * k) : k \in 0 .. MaxInc}
    IN {MoveTimeLimit}
       \cup [white_clock : clocks, black_clock : clocks, white_inc : incs, black_inc : incs]

\* Mutant of computation_time: the branch for black reads white's increment.
computation_time_white_inc(board_turn, limit) ==
    IF board_turn = WHITE /\ limit.white_inc # None
    THEN IF Get(limit.white_inc) = 0
         THEN IF Get(limit.white_clock) > Get(limit.black_clock)
              THEN Get(limit.white_clock) - Get(limit.black_clock)
              ELSE Seconds(1)
         ELSE IF Get(limit.white_clock) > Get(limit.black_clock)
              THEN (Get(limit.white_clock) - Get(limit.black_clock)) \div 4
                   + Get(limit.white_inc)
              ELSE Get(limit.white_inc)
    ELSE IF board_turn = BLACK /\ limit.white_inc # None
    THEN IF Get(limit.white_inc) = 0
         THEN IF Get(limit.black_clock) > Get(limit.white_clock)
              THEN Get(limit.black_clock) - Get(limit.white_clock)
              ELSE Seconds(1)
         ELSE IF Get(limit.black_clock) > Get(limit.white_clock)
              THEN (Get(limit.black_clock) - Get(limit.white_clock)) \div 4
                   + Get(limit.white_inc)
              ELSE Get(limit.white_inc)
    ELSE Seconds(20)

\* computation_time(board, time_limit), in ticks.
computation_time(board_turn, limit) ==
    IF board_turn = WHITE /\ limit.white_inc # None
    THEN IF Get(limit.white_inc) = 0
         THEN IF Get(limit.white_clock) > Get(limit.black_clock)
              THEN Get(limit.white_clock) - Get(limit.black_clock)
              ELSE Seconds(1)
         ELSE IF Get(limit.white_clock) > Get(limit.black_clock)
              THEN (Get(limit.white_clock) - Get(limit.black_clock)) \div 4
                   + Get(limit.white_inc)
              ELSE Get(limit.white_inc)
    ELSE IF board_turn = BLACK /\ limit.black_inc # None
    THEN IF Get(limit.black_inc) = 0
         THEN IF Get(limit.black_clock) > Get(limit.white_clock)
              THEN Get(limit.black_clock) - Get(limit.white_clock)
              ELSE Seconds(1)
         ELSE IF Get(limit.black_clock) > Get(limit.white_clock)
              THEN (Get(limit.black_clock) - Get(limit.white_clock)) \div 4
                   + Get(limit.black_inc)
              ELSE Get(limit.black_inc)
    ELSE Seconds(20)

\* The time limits the searches of the model are started with.
SearchTimeLimits ==
    {MoveTimeLimit,
     [white_clock |-> Some(Seconds(1) + 8), black_clock |-> Some(8),
      white_inc |-> Some(0), black_inc |-> Some(4)]}

(***************************************************************************)
(* The state of the engine object, of the board objects and of the timer.  *)
(***************************************************************************)
VARIABLES
    game,            \* the root position of the board passed to search
    time_limit,      \* the Limit passed to search / computation_time
    boards,          \* the board objects: reference -> move stack
    original_board,  \* search's local: the reference deepcopy returned, or None
    timeout,         \* self.timeout
    timer,           \* the threading.Timer: its state and its interval
    earlier,         \* the timers that earlier calls of search started
    move,            \* self.move: None or a PlayResult
    i,               \* the loop variable of search
    frames,          \* the call stack below search: decide and alphabeta frames
    retval,          \* the value a call has just returned to its caller
    pc,              \* where the running operation stands
    result,          \* what search returned to its caller
    calls,           \* the calls completed by the last step, with arguments and results
    npush,           \* the board.push calls made on the caller's board so far
    npop,            \* the board.pop calls made on the caller's board so far
    history,         \* the results of the decide calls completed so far
    leaves,          \* the leaves alphabeta returned in this iteration of the depth loop
    position,        \* the position heuristic is applied to
    score,           \* what heuristic returned
    seconds          \* what computation_time returned

vars == << earlier, game, time_limit, boards, original_board, timeout, timer, move, i, frames,
           retval, pc, result, calls, npush, npop, history, leaves, position, score,
           seconds >>

\* The hard cap of the depth loop of search (100 in the source; the loop runs
\* the depths 1 .. MAX_DEPTH - 1).
MAX_DEPTH == 3

\* The reference of the board object the caller passes to search.
board == "board"

\* Mutant of copy_deepcopy: no copy is made, the same object is returned.
copy_deepcopy_alias(objects, ref) == [objects |-> objects, ref |-> ref]

\* copy.deepcopy(board): a new board object with the same contents.
copy_deepcopy(objects, ref) ==
    [objects |-> [r \in DOMAIN objects \cup {"copy"} |->
                     IF r = "copy" THEN objects[ref] ELSE objects[r]],
     ref |-> "copy"]

PlayResult(m) == [move |-> m]

\* None in the place of a chess.Move (max_move = None); the moves are numbered
\* from 0.
NoMove == -1

Max(a, b) == IF a > b THEN a ELSE b

Min(a, b) == IF a < b THEN a ELSE b

\* A timer that is not running.
NoTimer == [state |-> "none", interval |-> 0]

\* The record a completed call leaves in `calls`.
CallLog(fn, frame, exit, value, best) ==
    [fn |-> fn, entry |-> frame.entry, exit |-> exit,
     pushes |-> npush - frame.npush0, pops |-> npop - frame.npop0,
     depth |-> frame.depth, alpha |-> frame.alpha0, beta |-> frame.beta0,
     is_player_maximizing |-> frame.is_player_maximizing,
     order |-> frame.order, result |-> value, best |-> best, cut |-> frame.cut]

(***************************************************************************)
(* sort_initial_moves and the ordering of the root moves in decide.        *)
(***************************************************************************)
\* sort_initial_moves(board, move): the key of a root move, and the move stack
\* it leaves on the board.
sort_initial_moves(stack, m) ==
    LET pushed == push(stack, m)
    IN [result |-> heuristic(Position(game, pushed)), board |-> pop(pushed),
        pushes |-> 1, pops |-> 1]

\* list.sort calls sort_initial_moves on every move of the list, one call
\* after the other on the same board: the move stack of the board after the
\* first k calls.
RECURSIVE SortBoard(_, _, _)
SortBoard(stack, moves, k) ==
    IF k = 0 THEN stack
    ELSE CHOOSE left \in {sort_initial_moves(before, moves[k]).board :
                              before \in {SortBoard(stack, moves, k - 1)}} : TRUE

\* The calls of sort_initial_moves list.sort makes, with the board each was
\* entered with and what it returned and left.
SortCalls(stack, moves) ==
    [k \in 1 .. Len(moves) |->
        CHOOSE c \in {[entry |-> before, call |-> sort_initial_moves(before, moves[k])] :
                         before \in {SortBoard(stack, moves, k - 1)}} : TRUE]

\* The record a completed call of sort_initial_moves leaves in `calls`.
SortLog(m, entry, call) ==
    [fn |-> "sort_initial_moves", entry |-> entry, exit |-> call.board,
     pushes |-> call.pushes, pops |-> call.pops, depth |-> 0,
     alpha |-> 0, beta |-> 0, is_player_maximizing |-> FALSE,
     order |-> << m >>, result |-> call.result, best |-> None, cut |-> FALSE]

\* random.shuffle followed by the stable list.sort(reverse=False, key=...): any
\* arrangement of the moves in ascending order of their keys.
SortedOrders(moves, keys) ==
    LET n == Len(moves)
    IN {[k \in 1 .. n |-> moves[p[k]]] :
            p \in {q \in [1 .. n -> 1 .. n] :
                      /\ \A a, b \in 1 .. n : a # b => q[a] # q[b]
                      /\ \A a, b \in 1 .. n : a < b => keys[q[a]] <= keys[q[b]]}}

\* legal_moves.remove(x): the list without the first x.
RECURSIVE ListRemove(_, _)
ListRemove(list, x) ==
    IF list = << >> THEN << >>
    ELSE IF Head(list) = x THEN Tail(list)
    ELSE << Head(list) >> \o ListRemove(Tail(list), x)

\* Mutant of PvFirst: the move is put in front without being taken out.
PvFirst_not_removed(order, self_move) ==
    IF self_move = None THEN order
    ELSE << Get(self_move).move >> \o order

\* The "if self.move is not None" block of decide: the move of the previous
\* iteration is taken out of the list and put in front.
PvFirst(order, self_move) ==
    IF self_move = None THEN order
    ELSE << Get(self_move).move >> \o ListRemove(order, Get(self_move).move)

\* list.remove raises ValueError when the value is not in the list.
RemoveRaises(order, self_move) ==
    /\ self_move # None
    /\ \A k \in 1 .. Len(order) : order[k] # Get(self_move).move

(***************************************************************************)
(* The frames of decide and alphabeta, and the folds of their loops.       *)
(***************************************************************************)
Top == frames[Len(frames)]

Caller == SubSeq(frames, 1, Len(frames) - 1)

\* The locals of decide before its loop: the window, the running best value
\* and move, and the ordered root moves still to try.
DecideFrame(stack, depth, order) ==
    LET white == turn(Position(game, stack)) = WHITE
    IN [fn |-> "decide", at |-> "loop", depth |-> depth,
        alpha |-> -99999999, beta |-> 99999999,
        is_player_maximizing |-> white,
        value |-> IF white THEN -99999999 ELSE 99999999,
        best |-> None, moves |-> order, cur |-> None, cut |-> FALSE,
        entry |-> stack, order |-> order, alpha0 |-> -99999999, beta0 |-> 99999999,
        npush0 |-> npush, npop0 |-> npop]

\* Mutant of AlphabetaFrame: the flag of the caller is passed on unflipped.
AlphabetaFrame_flag_kept(stack, depth, alpha, beta, is_player_maximizing) ==
    [fn |-> "alphabeta", at |-> "entry", depth |-> depth,
     alpha |-> alpha, beta |-> beta,
     is_player_maximizing |-> ~ is_player_maximizing,
     value |-> 0, best |-> None, moves |-> << >>, cur |-> None, cut |-> FALSE,
     entry |-> stack, order |-> << >>, alpha0 |-> alpha, beta0 |-> beta,
     npush0 |-> npush, npop0 |-> npop]

\* The arguments of an alphabeta call, at its first line.
AlphabetaFrame(stack, depth, alpha, beta, is_player_maximizing) ==
    [fn |-> "alphabeta", at |-> "entry", depth |-> depth,
     alpha |-> alpha, beta |-> beta,
     is_player_maximizing |-> is_player_maximizing,
     value |-> 0, best |-> None, moves |-> << >>, cur |-> None, cut |-> FALSE,
     entry |-> stack, order |-> << >>, alpha0 |-> alpha, beta0 |-> beta,
     npush0 |-> npush, npop0 |-> npop]

\* Mutant of LeafValue: the depth adjustment has the wrong sign.
LeafValue_wrong_sign(pos, depth, is_player_maximizing) ==
    IF is_player_maximizing THEN heuristic(pos) + depth ELSE heuristic(pos) - depth

\* The value alphabeta returns at depth 0 or on a finished game.
LeafValue(pos, depth, is_player_maximizing) ==
    IF is_player_maximizing THEN heuristic(pos) - depth ELSE heuristic(pos) + depth

\* The running best of decide after a root move returned `value`:
\* "if value > max_value or max_move == None" and its mirror for black.
DecideFold(frame, value) ==
    IF \/ frame.best = None
       \/ (frame.is_player_maximizing /\ value > frame.value)
       \/ (~ frame.is_player_maximizing /\ value < frame.value)
    THEN [frame EXCEPT !.value = value, !.best = frame.cur]
    ELSE frame

\* The running best of alphabeta after a move returned `value`.
AlphabetaFold(frame, value) ==
    [frame EXCEPT !.value = IF frame.is_player_maximizing THEN Max(frame.value, value)
                            ELSE Min(frame.value, value)]

\* Mutant of Cutoff: the loop never breaks.
Cutoff_never(frame) == FALSE

\* Mutant of Cutoff: the running best is compared with the wrong bound.
Cutoff_wrong_bound(frame) ==
    IF frame.is_player_maximizing THEN frame.value > frame.alpha
    ELSE frame.value < frame.beta

\* "if max_value > beta: break" and "if min_value < alpha: break".
Cutoff(frame) ==
    IF frame.is_player_maximizing THEN frame.value > frame.beta
    ELSE frame.value < frame.alpha

\* "alpha = max(alpha, max_value)" and "beta = min(beta, min_value)".
Tighten(frame) ==
    IF frame.is_player_maximizing
    THEN [frame EXCEPT !.alpha = Max(frame.alpha, frame.value)]
    ELSE [frame EXCEPT !.beta = Min(frame.beta, frame.value)]

\* The rest of a loop pass once the call has returned and the move is popped:
\* the loop ends on a cutoff, and goes on with the next move otherwise.
AfterPop(frame) ==
    IF Cutoff(frame)
    THEN [frame EXCEPT !.at = "loop", !.moves = << >>, !.cur = None, !.cut = TRUE]
    ELSE [Tighten(frame) EXCEPT !.at = "loop", !.moves = Tail(frame.moves), !.cur = None]

\* Mutant of TimeoutRaised: the flag is never looked at.
TimeoutRaised_never(frame, flag) == FALSE

\* Mutant of TimeoutRaised: the flag is not looked at on a call at depth 0.
TimeoutRaised_not_at_depth_0(frame, flag) == flag /\ frame.depth > 0

\* "if self.timeout: raise TimeoutError", the first line of alphabeta: whether
\* the call raises, given the value of the flag when the line is run.
TimeoutRaised(frame, flag) == flag

\* Mutant of PopAfterCall: the move is left on the board.
PopAfterCall_missing(stack) == stack

\* The move stack of the caller's board after the board.pop() of a loop pass.
PopAfterCall(stack) == pop(stack)

(***************************************************************************)
(* The search: one action per step of search, decide and alphabeta, and    *)
(* the timer thread's callback.                                            *)
(***************************************************************************)
EvalIdle == position = None /\ score = None

TimeIdle == seconds = None

Init ==
    /\ game \in Games
    /\ time_limit \in SearchTimeLimits
    /\ boards = [r \in {board} |-> << >>]
    /\ original_board = None
    /\ timeout = FALSE
    /\ timer = NoTimer
    /\ earlier = << >>
    /\ move = None
    /\ i = 0
    /\ frames = << >>
    /\ retval = None
    /\ pc = "idle"
    /\ result = None
    /\ calls = {}
    /\ npush = 0
    /\ npop = 0
    /\ history = << >>
    /\ leaves = {}
    /\ EvalIdle
    /\ TimeIdle

\* search, up to the depth loop: the flag and the best move are reset, the
\* board is copied, the budget is computed and the timer is started.
SearchStart ==
    /\ pc = "idle"
    /\ timeout' = FALSE
    /\ move' = None
    /\ LET c == copy_deepcopy(boards, board)
       IN /\ boards' = c.objects
          /\ original_board' = Some(c.ref)
    /\ timer' = [state |-> "started",
                 interval |-> computation_time(turn(Position(game, boards[board])),
                                               time_limit)]
    /\ i' = 1
    /\ pc' = "loop"
    /\ calls' = {}
    /\ UNCHANGED << earlier, game, time_limit, frames, retval, result, npush, npop, history,
                    leaves, position, score, seconds >>

\* Mutant of timeout_occured: the callback flips the flag and the timer runs
\* it again.
timeout_occured_flips ==
    /\ timer.state \in {"started", "fired"}
    /\ timeout' = ~ timeout
    /\ timer' = [timer EXCEPT !.state = "fired"]
    /\ calls' = {}
    /\ UNCHANGED << earlier, game, time_limit, boards, original_board, move, i, frames, retval,
                    pc, result, npush, npop, history, leaves, position, score, seconds >>

\* timeout_occured, run by the timer thread when the interval has passed.
timeout_occured ==
    /\ timer.state = "started"
    /\ timeout' = TRUE
    /\ timer' = [timer EXCEPT !.state = "fired"]
    /\ calls' = {}
    /\ UNCHANGED << earlier, game, time_limit, boards, original_board, move, i, frames, retval,
                    pc, result, npush, npop, history, leaves, position, score, seconds >>

\* One pass of the depth loop calls decide, which lists, shuffles and sorts the
\* root moves and puts the move of the previous iteration in front.
DecideCall ==
    /\ pc = "loop"
    /\ i < MAX_DEPTH
    /\ \E moves \in {legal_moves(Position(game, boards[board]))} :
       \E sorted \in {SortCalls(boards[board], moves)} :
       \E order \in SortedOrders(moves, [k \in 1 .. Len(moves) |-> sorted[k].call.result]) :
          /\ boards' = [boards EXCEPT ![board] = SortBoard(boards[board], moves, Len(moves))]
          /\ npush' = npush + Len(moves)
          /\ npop' = npop + Cardinality({k \in 1 .. Len(moves) : sorted[k].call.pops = 1})
          /\ calls' = {SortLog(moves[k], sorted[k].entry, sorted[k].call) :
                          k \in 1 .. Len(moves)}
          /\ IF RemoveRaises(order, move)
             THEN /\ pc' = "error"
                  /\ frames' = frames
             ELSE /\ pc' = "run"
                  /\ frames' = << DecideFrame(boards'[board], i, PvFirst(order, move)) >>
    /\ leaves' = {}
    /\ UNCHANGED << earlier, game, time_limit, original_board, timeout, timer, move, i, retval,
                    result, history, position, score, seconds >>

\* decide pushes the next root move and calls alphabeta on the position.
DecideLoop ==
    /\ pc = "run"
    /\ Top.fn = "decide" /\ Top.at = "loop" /\ Top.moves # << >>
    /\ LET m == Head(Top.moves)
           pushed == push(boards[board], m)
       IN /\ boards' = [boards EXCEPT ![board] = pushed]
          /\ frames' = Caller \o
                << [Top EXCEPT !.at = "called", !.cur = Some(m)],
                   [AlphabetaFrame(pushed, Top.depth, Top.alpha, Top.beta,
                                   ~ Top.is_player_maximizing)
                      EXCEPT !.npush0 = npush + 1] >>
    /\ npush' = npush + 1
    /\ calls' = {}
    /\ UNCHANGED << earlier, game, time_limit, original_board, timeout, timer, move, i, retval,
                    pc, result, npop, history, leaves, position, score, seconds >>

\* decide takes the value alphabeta returned, pops the root move and either
\* leaves the loop or narrows the window.
DecideResume ==
    /\ pc = "run"
    /\ Top.fn = "decide" /\ Top.at = "called" /\ retval # None
    /\ frames' = Caller \o << AfterPop(DecideFold(Top, Get(retval))) >>
    /\ boards' = [boards EXCEPT ![board] = PopAfterCall(boards[board])]
    /\ npop' = npop + 1
    /\ retval' = None
    /\ calls' = {}
    /\ UNCHANGED << earlier, game, time_limit, original_board, timeout, timer, move, i, pc,
                    result, npush, history, leaves, position, score, seconds >>

\* max_move / min_move of decide after its loop: the best move, or None when
\* the loop had no move to run over.
max_move(frame) == IF frame.best = None THEN NoMove ELSE Get(frame.best)

\* decide returns PlayResult(best move) and search records it in self.move.
DecideReturn ==
    /\ pc = "run"
    /\ Top.fn = "decide" /\ Top.at = "loop" /\ Top.moves = << >>
    /\ move' = Some(PlayResult(max_move(Top)))
    /\ history' = Append(history, PlayResult(max_move(Top)))
    /\ calls' = {CallLog("decide", Top, boards[board], Top.value, Top.best)}
    /\ frames' = Caller
    /\ i' = i + 1
    /\ pc' = "loop"
    /\ UNCHANGED << earlier, game, time_limit, boards, original_board, timeout, timer, retval,
                    result, npush, npop, leaves, position, score, seconds >>

\* The first line of alphabeta with the flag set: TimeoutError is raised.
AlphabetaTimeout ==
    /\ pc = "run"
    /\ Top.fn = "alphabeta" /\ Top.at = "entry"
    /\ TimeoutRaised(Top, timeout)
    /\ frames' = Caller
    /\ pc' = "raise"
    /\ calls' = {}
    /\ UNCHANGED << earlier, game, time_limit, boards, original_board, timeout, timer, move, i,
                    retval, result, npush, npop, history, leaves, position, score,
                    seconds >>

\* alphabeta at depth 0 or on a finished game returns the evaluation adjusted
\* by the remaining depth.
AlphabetaLeaf ==
    /\ pc = "run"
    /\ Top.fn = "alphabeta" /\ Top.at = "entry"
    /\ ~ TimeoutRaised(Top, timeout)
    /\ LET pos == Position(game, boards[board])
           value == LeafValue(pos, Top.depth, Top.is_player_maximizing)
       IN /\ Top.depth = 0 \/ is_game_over(pos)
          /\ retval' = Some(value)
          /\ calls' = {CallLog("alphabeta", Top, boards[board], value, None)}
          /\ leaves' = leaves \cup {[ply |-> Len(boards[board]), depth |-> Top.depth,
                                    is_player_maximizing |-> Top.is_player_maximizing,
                                    status |-> pos.status, value |-> value]}
    /\ frames' = Caller
    /\ UNCHANGED << earlier, game, time_limit, boards, original_board, timeout, timer, move, i,
                    pc, result, npush, npop, history, position, score, seconds >>

\* alphabeta on an inner node starts its loop over board.legal_moves.
AlphabetaExpand ==
    /\ pc = "run"
    /\ Top.fn = "alphabeta" /\ Top.at = "entry"
    /\ ~ TimeoutRaised(Top, timeout)
    /\ LET pos == Position(game, boards[board])
       IN /\ ~ (Top.depth = 0 \/ is_game_over(pos))
          /\ frames' = Caller \o
                << [Top EXCEPT !.at = "loop",
                               !.value = IF Top.is_player_maximizing THEN -99999999
                                         ELSE 99999999,
                               !.moves = legal_moves(pos)] >>
    /\ calls' = {}
    /\ UNCHANGED << earlier, game, time_limit, boards, original_board, timeout, timer, move, i,
                    retval, pc, result, npush, npop, history, leaves, position, score,
                    seconds >>

\* alphabeta pushes the next move and calls itself one ply deeper for the
\* other side.
AlphabetaLoop ==
    /\ pc = "run"
    /\ Top.fn = "alphabeta" /\ Top.at = "loop" /\ Top.moves # << >>
    /\ LET m == Head(Top.moves)
           pushed == push(boards[board], m)
       IN /\ boards' = [boards EXCEPT ![board] = pushed]
          /\ frames' = Caller \o
                << [Top EXCEPT !.at = "called", !.cur = Some(m)],
                   [AlphabetaFrame(pushed, Top.depth - 1, Top.alpha, Top.beta,
                                   ~ Top.is_player_maximizing)
                      EXCEPT !.npush0 = npush + 1] >>
    /\ npush' = npush + 1
    /\ calls' = {}
    /\ UNCHANGED << earlier, game, time_limit, original_board, timeout, timer, move, i, retval,
                    pc, result, npop, history, leaves, position, score, seconds >>

\* alphabeta folds the value the recursive call returned into its running
\* best, pops the move and either leaves the loop or narrows the window.
AlphabetaResume ==
    /\ pc = "run"
    /\ Top.fn = "alphabeta" /\ Top.at = "called" /\ retval # None
    /\ frames' = Caller \o << AfterPop(AlphabetaFold(Top, Get(retval))) >>
    /\ boards' = [boards EXCEPT ![board] = PopAfterCall(boards[board])]
    /\ npop' = npop + 1
    /\ retval' = None
    /\ calls' = {}
    /\ UNCHANGED << earlier, game, time_limit, original_board, timeout, timer, move, i, pc,
                    result, npush, history, leaves, position, score, seconds >>

\* alphabeta returns its running best after the loop.
AlphabetaReturn ==
    /\ pc = "run"
    /\ Top.fn = "alphabeta" /\ Top.at = "loop" /\ Top.moves = << >>
    /\ retval' = Some(Top.value)
    /\ calls' = {CallLog("alphabeta", Top, boards[board], Top.value, None)}
    /\ frames' = Caller
    /\ UNCHANGED << earlier, game, time_limit, boards, original_board, timeout, timer, move, i,
                    pc, result, npush, npop, history, leaves, position, score, seconds >>

\* The TimeoutError leaves one pending frame of alphabeta or decide: the frame
\* is abandoned where it stands, its board.pop() is not run.
Propagate ==
    /\ pc = "raise"
    /\ frames # << >>
    /\ frames' = Caller
    /\ calls' = {}
    /\ UNCHANGED << earlier, game, time_limit, boards, original_board, timeout, timer, move, i,
                    retval, pc, result, npush, npop, history, leaves, position, score,
                    seconds >>

\* Mutant of ExceptResult: the fallback is taken from the searched board.
ExceptResult_searched(objects, original, self_move) ==
    IF self_move = None
    THEN LET moves == legal_moves(Position(game, objects[board]))
         IN IF moves = << >> THEN None ELSE Some(PlayResult(moves[1]))
    ELSE self_move

\* Mutant of ExceptResult: the fallback is returned whether or not a depth
\* completed.
ExceptResult_always_first(objects, original, self_move) ==
    LET moves == legal_moves(Position(game, objects[original]))
    IN IF moves = << >> THEN None ELSE Some(PlayResult(moves[1]))

\* What the "except TimeoutError" block of search returns: the first legal
\* move of the copied board when no depth completed, self.move otherwise.
ExceptResult(objects, original, self_move) ==
    IF self_move = None
    THEN LET moves == legal_moves(Position(game, objects[original]))
         IN IF moves = << >> THEN None ELSE Some(PlayResult(moves[1]))
    ELSE self_move

\* search catches the TimeoutError and returns.
Catch ==
    /\ pc = "raise"
    /\ frames = << >>
    /\ result' = ExceptResult(boards, Get(original_board), move)
    /\ pc' = IF result' = None THEN "error" ELSE "done"
    /\ calls' = {}
    /\ UNCHANGED << earlier, game, time_limit, boards, original_board, timeout, timer, move, i,
                    frames, retval, npush, npop, history, leaves, position, score,
                    seconds >>

\* The depth loop ran to its cap: the timer is cancelled and self.move is
\* returned.
SearchReturn ==
    /\ pc = "loop"
    /\ i >= MAX_DEPTH
    /\ timer' = IF timer.state = "started" THEN [timer EXCEPT !.state = "cancelled"]
                ELSE timer
    /\ result' = move
    /\ pc' = "done"
    /\ calls' = {}
    /\ UNCHANGED << earlier, game, time_limit, boards, original_board, timeout, move, i, frames,
                    retval, npush, npop, history, leaves, position, score, seconds >>

Next ==
    \/ SearchStart
    \/ timeout_occured
    \/ DecideCall
    \/ DecideLoop
    \/ DecideResume
    \/ DecideReturn
    \/ AlphabetaTimeout
    \/ AlphabetaLeaf
    \/ AlphabetaExpand
    \/ AlphabetaLoop
    \/ AlphabetaResume
    \/ AlphabetaReturn
    \/ Propagate
    \/ Catch
    \/ SearchReturn

Spec == Init /\ [][Next]_vars

\* The steps of the thread that called search.
MainThread ==
    \/ SearchStart \/ DecideCall \/ DecideLoop \/ DecideResume \/ DecideReturn
    \/ AlphabetaTimeout \/ AlphabetaLeaf \/ AlphabetaExpand \/ AlphabetaLoop
    \/ AlphabetaResume \/ AlphabetaReturn \/ Propagate \/ Catch \/ SearchReturn

\* The calling thread keeps running, and a timer that was started and is not
\* cancelled runs its callback when its interval has passed.
Fairness == WF_vars(MainThread) /\ WF_vars(timeout_occured)

SpecFair == Init /\ [][Next]_vars /\ Fairness

(***************************************************************************)
(* heuristic and computation_time on their own: the inputs are drawn from  *)
(* EvalPositions and TimeLimits, the engine is not searching.              *)
(***************************************************************************)
NotSearching ==
    /\ boards = [r \in {board} |-> << >>]
    /\ original_board = None
    /\ timeout = FALSE
    /\ timer = NoTimer
    /\ earlier = << >>
    /\ move = None
    /\ i = 0
    /\ frames = << >>
    /\ retval = None
    /\ result = None
    /\ calls = {}
    /\ npush = 0
    /\ npop = 0
    /\ history = << >>
    /\ leaves = {}

InitEval ==
    /\ game = [turn |-> WHITE, mul |-> 0, off |-> 0]
    /\ time_limit = MoveTimeLimit
    /\ NotSearching
    /\ pc = "eval"
    /\ position \in {Some(p) : p \in EvalPositions}
    /\ score = None
    /\ TimeIdle

\* heuristic(board) is called on the position.
Heuristic ==
    /\ pc = "eval"
    /\ score' = Some(heuristic(Get(position)))
    /\ pc' = "evaluated"
    /\ UNCHANGED << earlier, game, time_limit, boards, original_board, timeout, timer, move, i,
                    frames, retval, result, calls, npush, npop, history, leaves,
                    position, seconds >>

NextEval == Heuristic

SpecEval == InitEval /\ [][NextEval]_vars

InitTime ==
    /\ game \in {g \in Games : g.mul = 0 /\ g.off = 0}
    /\ time_limit \in TimeLimits
    /\ NotSearching
    /\ pc = "time"
    /\ EvalIdle
    /\ seconds = None

\* computation_time(board, time_limit) is called for the board and the limit.
ComputationTime ==
    /\ pc = "time"
    /\ seconds' = Some(computation_time(turn(Position(game, boards[board])), time_limit))
    /\ pc' = "timed"
    /\ UNCHANGED << earlier, game, time_limit, boards, original_board, timeout, timer, move, i,
                    frames, retval, result, calls, npush, npop, history, leaves,
                    position, score >>

NextTime == ComputationTime

SpecTime == InitTime /\ [][NextTime]_vars

(***************************************************************************)
(* Several calls of search on the same engine object, one after the other. *)
(* The caller may also ask for a move on a finished game: decide then      *)
(* returns PlayResult(None) and the second pass raises ValueError at       *)
(* legal_moves.remove, which leaves search past its except clause.         *)
(***************************************************************************)
\* The calls of search made on one engine object.
MaxSearches == 2

\* The root positions search may be called on, finished games included.
SeqGames == [turn : BOOLEAN, mul : 0 .. MaxMul, off : 0 .. Len(CATALOG) - 1]

InitSeq ==
    /\ game \in SeqGames
    /\ time_limit \in SearchTimeLimits
    /\ NotSearching
    /\ pc = "idle"
    /\ EvalIdle
    /\ TimeIdle

\* search has returned or raised, and the caller calls it again on the same
\* engine object with a board of its next game: the local timer of the call
\* that ended lives on as a thread, self.timeout and self.move stay as they
\* are until the first lines of the new call.
SearchAgain ==
    /\ pc \in {"done", "error"}
    /\ Len(earlier) + 1 < MaxSearches
    /\ earlier' = Append(earlier, timer)
    /\ timer' = NoTimer
    /\ game' \in Games
    /\ boards' = [r \in {board} |-> << >>]
    /\ original_board' = None
    /\ i' = 0
    /\ frames' = << >>
    /\ retval' = None
    /\ pc' = "idle"
    /\ result' = None
    /\ calls' = {}
    /\ npush' = 0
    /\ npop' = 0
    /\ history' = << >>
    /\ leaves' = {}
    /\ UNCHANGED << time_limit, timeout, move, position, score, seconds >>

\* timeout_occured, run by the thread of a timer that an earlier call of
\* search started and left running.
EarlierTimeout ==
    /\ \E k \in 1 .. Len(earlier) :
          /\ earlier[k].state = "started"
          /\ earlier' = [earlier EXCEPT ![k].state = "fired"]
    /\ timeout' = TRUE
    /\ calls' = {}
    /\ UNCHANGED << game, time_limit, boards, original_board, timer, move, i, frames,
                    retval, pc, result, npush, npop, history, leaves, position, score,
                    seconds >>

NextSeq ==
    \/ Next
    \/ SearchAgain
    \/ EarlierTimeout

SpecSeq == InitSeq /\ [][NextSeq]_vars

(***************************************************************************)
(* The claims.                                                             *)
(***************************************************************************)
\* The position that was passed to search: the root, no move pushed.
PassedIn == Position(game, << >>)

InList(x, list) == \E k \in 1 .. Len(list) : list[k] = x

\* search returned from its "except TimeoutError" block, not from the end of
\* the depth loop.
Cancelled == pc = "done" /\ i < MAX_DEPTH

\* C1: whenever the timer fires (or if it never does), search ends without an
\* exception reaching the caller, and the move of the result it returns is a
\* legal move of the position that was passed in.
C1_ReturnsLegalMove ==
    /\ pc # "error"
    /\ pc = "done" =>
          /\ result # None
          /\ InList(Get(result).move, legal_moves(PassedIn))

\* C1 witness: a search cancelled in the middle of the recursion of the
\* second depth has returned.
C1_Witness ==
    /\ Cancelled
    /\ timer.state = "fired"
    /\ Len(history) = 1
    /\ Len(boards[board]) >= 2

\* C2: the snapshot search made keeps the position that was passed in whatever
\* is pushed on the searched board, and a search cancelled before depth 1
\* completed returns a legal move of the snapshot, which is a legal move of the
\* position that was passed in.
C2_FallbackFromSnapshot ==
    /\ original_board # None => boards[Get(original_board)] = << >>
    /\ (Cancelled /\ history = << >>) =>
          /\ result # None
          /\ InList(Get(result).move,
                    legal_moves(Position(game, boards[Get(original_board)])))
          /\ InList(Get(result).move, legal_moves(PassedIn))

\* C2 witness: a search cancelled before depth 1 completed has returned while
\* the searched board still holds unpopped moves.
C2_Witness ==
    /\ Cancelled
    /\ history = << >>
    /\ result # None
    /\ Len(boards[board]) >= 1

\* C3: the depths run one after the other (the depth being searched is one
\* more than the number of completed depths), self.move is the result of the
\* last completed decide and nothing else, and a search cancelled during
\* depth d + 1 returns the result of the completed depth d.
C3_LastCompletedDepth ==
    /\ pc \in {"loop", "run", "raise", "done"} =>
          /\ i = Len(history) + 1
          /\ move = IF history = << >> THEN None ELSE Some(history[Len(history)])
    /\ frames # << >> => frames[1].fn = "decide" /\ frames[1].depth = i
    /\ (Cancelled /\ Len(history) >= 1) => result = Some(history[i - 1])

\* C3 witness: a search cancelled during depth 2 returned the move of depth 1,
\* which is not the first legal move of the root.
C3_Witness ==
    /\ Cancelled
    /\ i = 2
    /\ Len(history) = 1
    /\ result = Some(history[1])
    /\ history[1].move # legal_moves(PassedIn)[1]

\* C4 (as claimed): when search has returned, on every path, the caller's
\* board is the position that was passed in.
C4_BoardRestored == pc = "done" => boards[board] = << >>

\* C5: every call of alphabeta, decide or sort_initial_moves that completes
\* has made as many pushes as pops and leaves the board as it found it.
C5_PushPopBalance ==
    \A c \in calls : c.pushes = c.pops /\ c.exit = c.entry

\* C5 witness: an alphabeta call that left its loop early through a cutoff
\* has completed.
C5_Witness ==
    \E c \in calls : c.fn = "alphabeta" /\ c.cut /\ c.pushes >= 1

\* The largest and the smallest element of a non-empty set of numbers.
SetMax(S) == CHOOSE x \in S : \A y \in S : y <= x

SetMin(S) == CHOOSE x \in S : \A y \in S : y >= x

\* The exhaustive minimax value of a position searched `depth` plies deep, with
\* the leaf values of alphabeta and no window.
RECURSIVE Minimax(_, _, _)
Minimax(stack, depth, maximizing) ==
    LET pos == Position(game, stack)
    IN IF depth = 0 \/ is_game_over(pos)
       THEN IF maximizing THEN heuristic(pos) - depth ELSE heuristic(pos) + depth
       ELSE LET values == {Minimax(push(stack, legal_moves(pos)[k]), depth - 1, ~ maximizing) :
                              k \in 1 .. Len(legal_moves(pos))}
            IN IF maximizing THEN SetMax(values) ELSE SetMin(values)

\* The exhaustive minimax values of the root moves, in the order of `order`.
RootValues(stack, depth, order) ==
    [k \in 1 .. Len(order) |->
        Minimax(push(stack, order[k]), depth, ~ (turn(Position(game, stack)) = WHITE))]

\* The minimax value of the root: the best of the values of its moves.
RootBest(stack, values) ==
    IF turn(Position(game, stack)) = WHITE
    THEN SetMax({values[k] : k \in 1 .. Len(values)})
    ELSE SetMin({values[k] : k \in 1 .. Len(values)})

\* The number of pushes of an exhaustive search of a position `depth` plies
\* deep.
RECURSIVE ExhaustivePushes(_, _)
ExhaustivePushes(stack, depth) ==
    LET pos == Position(game, stack)
        moves == legal_moves(pos)
        below == [k \in 1 .. Len(moves) |-> 1 + ExhaustivePushes(push(stack, moves[k]), depth - 1)]
        sum[k \in 0 .. Len(moves)] == IF k = 0 THEN 0 ELSE sum[k - 1] + below[k]
    IN IF depth = 0 \/ is_game_over(pos) THEN 0 ELSE sum[Len(moves)]

\* C6: without cancellation, an alphabeta call entered with the full window
\* returns the exhaustive minimax value of its position and depth, and decide
\* returns the first move, in its root order, whose exhaustive minimax value
\* is the best one, with that value as its running best.
C6_AlphaBetaIsMinimax ==
    \A c \in calls :
        /\ (c.fn = "alphabeta" /\ c.alpha = -99999999 /\ c.beta = 99999999) =>
              c.result = Minimax(c.entry, c.depth, c.is_player_maximizing)
        /\ c.fn = "decide" =>
              \E values \in {RootValues(c.entry, c.depth, c.order)} :
              \E k \in 1 .. Len(c.order) :
                 /\ values[k] = RootBest(c.entry, values)
                 /\ \A j \in 1 .. k - 1 : values[j] # values[k]
                 /\ c.best = Some(c.order[k])
                 /\ c.result = values[k]

\* C6 witness: a decide call of depth 2 has completed that pushed fewer moves
\* than an exhaustive search pushes (branches were cut off), and whose best
\* move is not the first of its root order.
C6_Witness ==
    \E c \in calls :
        /\ c.fn = "decide"
        /\ c.depth = 2
        /\ c.best # Some(c.order[1])
        /\ c.pushes < Len(c.order) + ExhaustivePushes(c.entry, c.depth + 1)

\* C10: a checkmate leaf returns -9999999 - depth at a maximizing node and
\* 9999999 + depth at a minimizing node; of two mates of the same side in one
\* iteration the one fewer plies from the root is strictly better for the
\* mating side; and a mate is strictly better for the mating side than every
\* leaf that is not a checkmate.
C10_MateScores ==
    /\ \A m \in leaves : m.status = "checkmate" =>
          m.value = IF m.is_player_maximizing THEN -9999999 - m.depth
                    ELSE 9999999 + m.depth
    /\ \A m, n \in leaves :
          (/\ m.status = "checkmate" /\ n.status = "checkmate"
           /\ m.is_player_maximizing = n.is_player_maximizing
           /\ m.ply < n.ply) =>
             IF m.is_player_maximizing THEN m.value < n.value ELSE m.value > n.value
    /\ \A m, n \in leaves :
          (m.status = "checkmate" /\ n.status # "checkmate") =>
             IF m.is_player_maximizing THEN m.value < n.value ELSE m.value > n.value

\* C10 witness: one iteration has returned a mate one ply from the root and a
\* mate of the same side three plies from the root, and a leaf that is no mate.
C10_Witness ==
    \E m, n, l \in leaves :
        /\ m.status = "checkmate" /\ n.status = "checkmate" /\ l.status = "normal"
        /\ m.is_player_maximizing = n.is_player_maximizing
        /\ m.ply = 1 /\ n.ply = 3

\* The clocks and the increment of a limit as the side to move sees them.
OwnInc(side, limit) == IF side = WHITE THEN limit.white_inc ELSE limit.black_inc

OwnClock(side, limit) == IF side = WHITE THEN limit.white_clock ELSE limit.black_clock

OpponentClock(side, limit) == IF side = WHITE THEN limit.black_clock ELSE limit.white_clock

\* The clock lead of the side to move, in ticks.
Lead(side, limit) == Get(OwnClock(side, limit)) - Get(OpponentClock(side, limit))

\* The side computation_time was called for.
SideToMove == turn(PassedIn)

\* C7: with own clock o, opponent clock p and own increment inc, the budget is
\* o - p when inc = 0 and o > p, 1 second when inc = 0 and o <= p,
\* inc + (o - p) / 4 when inc # 0 and o > p, inc when inc # 0 and o <= p, and
\* 20 seconds when the own increment is not defined; the same for both sides.
C7_BudgetRule ==
    seconds # None =>
        Get(seconds) =
            IF OwnInc(SideToMove, time_limit) = None THEN Seconds(20)
            ELSE LET inc == Get(OwnInc(SideToMove, time_limit))
                     lead == Lead(SideToMove, time_limit)
                 IN CASE inc = 0 /\ lead > 0 -> lead
                      [] inc = 0 /\ lead <= 0 -> Seconds(1)
                      [] inc # 0 /\ lead > 0 -> inc + lead \div 4
                      [] inc # 0 /\ lead <= 0 -> inc

\* C7 witness: the budget of black, ahead on the clock with a non-zero
\* increment while white's increment is zero, has been computed.
C7_Witness ==
    /\ seconds # None
    /\ SideToMove = BLACK
    /\ time_limit.black_inc # None /\ time_limit.black_inc # Some(0)
    /\ time_limit.white_inc = Some(0)
    /\ Lead(BLACK, time_limit) > 0

\* C8 (as claimed): with the own increment 0, no clock state with a lead at
\* least as large gets a smaller budget than the one computed.
C8_MonotoneInLead ==
    (seconds # None /\ OwnInc(SideToMove, time_limit) = Some(0)) =>
        \A other \in TimeLimits :
            (/\ OwnInc(SideToMove, other) = Some(0)
             /\ Lead(SideToMove, other) >= Lead(SideToMove, time_limit)) =>
                computation_time(SideToMove, other) >= Get(seconds)

\* The phase weight the claims give a piece type: 0 for pawns and kings, 1 for
\* knights and bishops, 2 for rooks, 4 for queens.
ClaimedPhaseWeight(piece_type) ==
    CASE piece_type = KNIGHT \/ piece_type = BISHOP -> 1
      [] piece_type = ROOK -> 2
      [] piece_type = QUEEN -> 4
      [] OTHER -> 0

\* The phase weight of the material of a position, by the claimed weights.
ClaimedPhase(pos) ==
    LET squares == DOMAIN pos.pieces
        count(piece_type) == Cardinality({sq \in squares : pos.pieces[sq].piece_type = piece_type})
    IN count(KNIGHT) + count(BISHOP) + 2 * count(ROOK) + 4 * count(QUEEN)

\* A position heuristic scores by its tables: no checkmate, stalemate or
\* insufficient material.
Scored(pos) ==
    ~ (is_checkmate(pos) \/ is_stalemate(pos) \/ is_insufficient_material(pos))

\* C9 (as claimed): a position with at least 24 phase weight of non-pawn
\* material is scored by the middlegame tables alone, with weight 24, and a
\* position of kings and pawns by the endgame tables alone, with weight 24.
C9_PhaseTaperBoundary ==
    (score # None /\ Scored(Get(position))) =>
        LET pos == Get(position)
            acc == HeuristicTotals(pos)
        IN /\ ClaimedPhase(pos) >= 24 =>
                 /\ middle_game_phase(acc) = 24 /\ end_game_phase(acc) = 0
                 /\ Get(score) = 24 * mid_score(acc)
           /\ (\A sq \in DOMAIN pos.pieces : pos.pieces[sq].piece_type \in {PAWN, KING}) =>
                 /\ middle_game_phase(acc) = 0 /\ end_game_phase(acc) = 24
                 /\ Get(score) = 24 * end_score(acc)


\* C11: an alphabeta call that runs its first line with the flag set raises,
\* at every depth, depth 0 included, and returns no score; while the
\* TimeoutError travels, each step abandons exactly one pending frame of
\* alphabeta or decide, no call completes, no value is returned and self.move
\* is not assigned; the error is raised only by the first line of alphabeta
\* and is caught only by search, when no frame is pending any more.
C11_CancellationPropagates ==
    [][/\ (pc = "run" /\ timeout /\ Top.fn = "alphabeta" /\ Top.at = "entry") =>
             /\ pc' = "raise" /\ retval' = None /\ calls' = {}
             /\ frames' = Caller /\ move' = move
       /\ pc = "raise" =>
             /\ move' = move /\ retval' = retval /\ history' = history /\ calls' = {}
             /\ \/ frames # << >> /\ pc' = "raise" /\ frames' = Caller /\ result' = result
                \/ frames = << >> /\ pc' \in {"done", "error"}
       /\ (pc # "raise" /\ pc' = "raise") =>
             timeout /\ pc = "run" /\ Top.fn = "alphabeta" /\ Top.at = "entry"
      ]_vars

\* C11 witness: in the second iteration an alphabeta call at depth 0 has
\* raised, the frames of decide and of the calls at depths 2 and 1 are pending
\* and a best move is recorded.
C11_Witness ==
    /\ pc = "raise" /\ Len(frames) = 3
    /\ frames[1].fn = "decide" /\ Top.fn = "alphabeta"
    /\ Top.depth = 1 /\ Top.at = "called"
    /\ move # None

\* C12: every call of search returns; an alphabeta call entered with the flag
\* set leads to the return of search from its except block; and when search
\* returns from the end of its depth loop, every depth below the cap has been
\* completed, the timer is not left running and the result is the move of the
\* last iteration.
C12_SearchReturns ==
    /\ (pc # "idle") ~> (pc = "done")
    /\ (pc = "run" /\ timeout /\ Top.fn = "alphabeta" /\ Top.at = "entry") ~> Cancelled
    /\ [](pc = "done" /\ i >= MAX_DEPTH =>
            /\ Len(history) = MAX_DEPTH - 1
            /\ timer.state \in {"cancelled", "fired"}
            /\ result = Some(history[Len(history)]))

\* C12 witness: search has returned from its except block after the timer
\* fired in the second iteration; no frame is left.
C12_Witness ==
    /\ pc = "done" /\ timer.state = "fired" /\ timeout
    /\ i = 2 /\ Len(history) = 1 /\ frames = << >>
    /\ result # None

\* C13 (as claimed): after the loop of heuristic the game-phase counter is the
\* number of knights and bishops plus twice the number of rooks plus four
\* times the number of queens on the board, pawns and kings counting 0;
\* middle_game_phase is that sum clamped to 24, end_game_phase is 24 less
\* middle_game_phase, and both lie in 0 .. 24.
C13_PhaseWeights ==
    (score # None /\ Scored(Get(position))) =>
        LET pos == Get(position)
            acc == HeuristicTotals(pos)
        IN /\ acc.game_phase = ClaimedPhase(pos)
           /\ middle_game_phase(acc) = Min(24, ClaimedPhase(pos))
           /\ end_game_phase(acc) = 24 - middle_game_phase(acc)
           /\ middle_game_phase(acc) \in 0 .. 24
           /\ end_game_phase(acc) \in 0 .. 24

\* The square on the same file and the mirrored rank.
RankMirror(square) == Sq(square % 8, 7 - square \div 8)

\* The position with every piece on the rank-mirrored square in the other
\* colour, and the other side to move.
ColourFlipped(pos) ==
    [pos EXCEPT !.turn = ~ pos.turn,
                !.pieces = [square \in {RankMirror(sq) : sq \in DOMAIN pos.pieces} |->
                               LET piece == pos.pieces[RankMirror(square)]
                               IN Piece(piece.piece_type, ~ piece.color)]]

\* C14 (as claimed): for the type of every piece on the board and the square
\* it stands on, the white table holds on that square what the black table of
\* the same type holds on the rank-mirrored square of the same file, in the
\* middlegame and in the endgame set; and the colour-flipped, rank-mirrored
\* position evaluates to the opposite score.
C14_RankMirroredTables ==
    (score # None /\ Scored(Get(position))) =>
        LET pos == Get(position)
        IN /\ \A sq \in DOMAIN pos.pieces :
                 LET piece_type == pos.pieces[sq].piece_type
                 IN /\ At(MID_GAME_TABLE(WHITE, piece_type), sq)
                         = At(MID_GAME_TABLE(BLACK, piece_type), RankMirror(sq))
                    /\ At(END_GAME_TABLE(WHITE, piece_type), sq)
                         = At(END_GAME_TABLE(BLACK, piece_type), RankMirror(sq))
           /\ heuristic(ColourFlipped(pos)) = 0 - Get(score)

\* C15: on a checkmate heuristic returns -9999999 when white, the side to
\* move, is mated and 9999999 when black is; on a stalemate or insufficient
\* material it returns 0; in these cases the result is the same whatever
\* pieces stand on the board; and the call leaves the position as it was.
C15_TerminalFirst ==
    /\ [](score # None =>
            LET pos == Get(position)
                same == {q \in EvalPositions : q.status = pos.status /\ q.turn = pos.turn}
            IN /\ is_checkmate(pos) =>
                     /\ Get(score) = IF turn(pos) = WHITE THEN -9999999 ELSE 9999999
                     /\ \A q \in same : heuristic(q) = Get(score)
               /\ (is_stalemate(pos) \/ is_insufficient_material(pos)) =>
                     /\ Get(score) = 0
                     /\ \A q \in same : heuristic(q) = 0)
    /\ [][position' = position]_vars

\* C15 witness: heuristic has been called on a checkmate of white with a
\* white queen and no black piece but the king on the board.
C15_Witness ==
    /\ score # None
    /\ is_checkmate(Get(position)) /\ turn(Get(position)) = WHITE
    /\ DOMAIN Get(position).pieces = {Sq(3, 0), Sq(4, 0), Sq(4, 7)}

\* The one-ply static evaluation of a root move: heuristic of the position
\* after the move.
OnePlyScore(root, m) == heuristic(Position(game, push(root, m)))

\* The list of root moves of the decide call that is running.
RootOrder == frames[1].order

\* C16: while decide runs, its list of root moves holds every legal move of
\* the root position exactly once and nothing else; when a move of an earlier
\* iteration is recorded, it is the first element; the other elements are in
\* ascending order of their one-ply static evaluation, whichever side is to
\* move.
C16_RootOrder ==
    (pc = "run" /\ frames # << >>) =>
        LET root == frames[1].entry
            legal == legal_moves(Position(game, root))
            rest == IF move = None THEN RootOrder ELSE Tail(RootOrder)
        IN /\ frames[1].fn = "decide"
           /\ Len(RootOrder) = Len(legal)
           /\ \A k \in 1 .. Len(legal) :
                  Cardinality({j \in 1 .. Len(RootOrder) : RootOrder[j] = legal[k]}) = 1
           /\ move # None => RootOrder[1] = Get(move).move
           /\ \A a, b \in 1 .. Len(rest) :
                  a < b => OnePlyScore(root, rest[a]) <= OnePlyScore(root, rest[b])

\* C16 witness: black is to move at the root, the move of the first iteration
\* stands first in the list of the second although its one-ply evaluation is
\* higher than that of the move after it.
C16_Witness ==
    /\ pc = "run" /\ frames # << >> /\ move # None
    /\ turn(PassedIn) = BLACK
    /\ Len(RootOrder) >= 2
    /\ RootOrder[1] = Get(move).move
    /\ OnePlyScore(frames[1].entry, RootOrder[1]) > OnePlyScore(frames[1].entry, RootOrder[2])

\* C17 (as claimed): the value a completed decide call of depth d associates
\* with the move it returns is the value of alphabeta on the root position at
\* depth d with the full window and the side to move maximizing when it is
\* white: the iteration looks d plies ahead of the root, the root move being
\* the first ply.
C17_DecideIsAlphabetaAtRoot ==
    \A c \in calls :
        c.fn = "decide" =>
            c.result = Minimax(c.entry, c.depth, turn(Position(game, c.entry)) = WHITE)

\* search is between its first line and its return.
Searching == pc \in {"loop", "run", "raise"}

\* C18 (as claimed): the flag is false when the first decide starts; during
\* an invocation it never goes from true to false, and it changes only by the
\* timer callback, which sets it once.
C18_FlagFalseAtFirstDecide ==
    [][/\ (pc = "loop" /\ i = 1 /\ pc' # "loop") => ~ timeout
       /\ (Searching /\ timeout) => timeout'
       /\ (Searching /\ timeout' # timeout) =>
             /\ timer.state = "started" /\ timer'.state = "fired"
             /\ pc' = pc /\ frames' = frames /\ move' = move
      ]_vars

\* C18 (amended): the flag is false when search has run its first lines and
\* started the timer; during an invocation it never goes from true to false,
\* and it changes only by the timer callback, which sets it once.  The
\* callback may run before the first decide starts.
C18_FlagSingleWrite ==
    [][/\ (pc = "idle" /\ pc' # "idle") => (~ timeout' /\ timer'.state = "started")
       /\ (Searching /\ timeout) => timeout'
       /\ (Searching /\ timeout' # timeout) =>
             /\ timer.state = "started" /\ timer'.state = "fired"
             /\ pc' = pc /\ frames' = frames /\ move' = move
      ]_vars

\* C18 witness: the timer callback has set the flag of a running invocation
\* before the first decide started.
C18_Witness ==
    /\ pc = "loop" /\ i = 1 /\ history = << >>
    /\ timeout /\ timer.state = "fired"

\* C19 (as claimed): while a call of search runs with the flag set, and when
\* a call has returned from its except block, the timer this call started
\* has fired: no timer of an earlier call has set the flag.
C19_OwnTimerOnly ==
    /\ (Searching /\ timeout) => timer.state = "fired"
    /\ Cancelled => timer.state = "fired"

Abs(x) == IF x < 0 THEN 0 - x ELSE x

\* The depths alphabeta can be called with: decide passes the loop variable
\* of search, which stays below the hard cap of the source.
DepthCap == 100

\* What a piece other than a king can add to one of the four scores: its
\* material value plus its table entry, over both colours, both weighting
\* sets and all squares.
NonKingTerms ==
    UNION {{MID_GAME_CHESS_PIECE_VALUES[pt] + At(MID_GAME_TABLE(c, pt), sq),
            END_GAME_CHESS_PIECE_VALUES[pt] + At(END_GAME_TABLE(c, pt), sq)} :
              pt \in PAWN .. QUEEN, c \in BOOLEAN, sq \in SQUARES}

\* The entries of the king tables.  Each side has one king, so the material
\* values of the kings cancel in mid_score and end_score.
KingTableEntries ==
    UNION {{At(MID_GAME_TABLE(c, KING), sq), At(END_GAME_TABLE(c, KING), sq)} :
              c \in BOOLEAN, sq \in SQUARES}

\* A bound of |mid_score| and |end_score| for a position with one king per
\* side and n other pieces.
ScoreBound(n) ==
    n * SetMax({Abs(x) : x \in NonKingTerms})
    + SetMax(KingTableEntries) - SetMin(KingTableEntries)

\* C20: for a scored position with one king per side, the absolute value of
\* the evaluation is at most 24 times the bound of its piece count; 24 times
\* the bound of 30 other pieces, the most a game can hold, plus the largest
\* depth adjustment is below 9999999, and so is the evaluation of the
\* position plus that adjustment; and the value alphabeta returns on the
\* position as a leaf, a mate sentinel included, at any depth up to the cap
\* and for either side, lies strictly inside (-99999999, 99999999).
C20_SentinelsApart ==
    score # None =>
        LET pos == Get(position)
            others == Cardinality({sq \in DOMAIN pos.pieces :
                                      pos.pieces[sq].piece_type # KING})
        IN /\ Scored(pos) =>
                 /\ Abs(Get(score)) <= 24 * ScoreBound(others)
                 /\ 24 * ScoreBound(30) + DepthCap < 9999999
                 /\ Abs(Get(score)) + DepthCap < 9999999
           /\ \A depth \in {0, DepthCap}, is_player_maximizing \in BOOLEAN :
                 /\ -99999999 < LeafValue(pos, depth, is_player_maximizing)
                 /\ LeafValue(pos, depth, is_player_maximizing) < 99999999

\* C20 witness: heuristic has scored a position in which white has a queen
\* and a knight against the bare king, far from level.
C20_Witness ==
    /\ score # None /\ Scored(Get(position))
    /\ \A sq \in DOMAIN Get(position).pieces :
           Get(position).pieces[sq].color = WHITE \/ Get(position).pieces[sq].piece_type = KING
    /\ Cardinality(DOMAIN Get(position).pieces) = 4
    /\ Abs(Get(score)) > 9999

\* C21: in every alphabeta call, pending or just completed, the argument
\* is_player_maximizing is true exactly when white is to move in the position
\* the call was entered with; and each call is entered one move below its
\* caller with the flag of the caller flipped.
C21_MaximizingIsWhite ==
    /\ \A k \in 1 .. Len(frames) :
          frames[k].fn = "alphabeta" =>
             /\ frames[k].is_player_maximizing
                   = (turn(Position(game, frames[k].entry)) = WHITE)
             /\ k > 1
             /\ Len(frames[k].entry) = Len(frames[k - 1].entry) + 1
             /\ frames[k].is_player_maximizing = ~ frames[k - 1].is_player_maximizing
    /\ \A c \in calls :
          c.fn = "alphabeta" =>
             c.is_player_maximizing = (turn(Position(game, c.entry)) = WHITE)

\* C21 witness: with black to move at the root, decide and three nested
\* alphabeta calls are pending, the innermost at its first line.
C21_Witness ==
    /\ pc = "run" /\ turn(PassedIn) = BLACK
    /\ Len(frames) = 4 /\ frames[1].fn = "decide"
    /\ Top.fn = "alphabeta" /\ Top.at = "entry" /\ Top.depth = 0
    /\ Top.is_player_maximizing

\* C22: every pending frame of decide and alphabeta holds alpha <= beta, every
\* alphabeta call was entered with alpha <= beta, and so was every call that
\* has just completed.
C22_WindowNotInverted ==
    /\ \A k \in 1 .. Len(frames) :
          /\ frames[k].alpha <= frames[k].beta
          /\ frames[k].alpha0 <= frames[k].beta0
    /\ \A c \in calls : c.fn = "alphabeta" => c.alpha <= c.beta

\* C22 witness: an alphabeta call is at its first line with a window that its
\* callers have narrowed from both sides.
C22_Witness ==
    /\ pc = "run" /\ frames # << >>
    /\ Top.fn = "alphabeta" /\ Top.at = "entry"
    /\ Top.alpha0 > -99999999 /\ Top.beta0 < 99999999

====
